---- MODULE Spec2Model ----
(***************************************************************************)
(* Model of server.py: a Flask application with two SQLAlchemy tables      *)
(* (Visit, Event), two ingestion handlers (track_visit, track_event) and   *)
(* two read handlers (get_analytics, dashboard).  Every handler is split   *)
(* at its storage calls, so that requests served by different workers      *)
(* interleave at exactly the points where the code talks to the database.  *)
(***************************************************************************)
EXTENDS Integers, Sequences, FiniteSets, TLC

\* ---------------------------------------------------------------- bounds
NumWorkers == 2
MaxRequests == 2
MaxClock == 2
MaxRows == 2

Workers == 1..NumWorkers

\* ------------------------------------------------------- Python values
\* Scalars coming out of request.json are written as strings: the three
\* constants below and plain str values.  Absent marks a key that the
\* payload dict does not have.
PyNone == "None"
PyTrue == "True"
PyFalse == "False"
Absent == "<absent>"

Resolution == "1920x1080"
LongResolution == "10000000x10000000 @3x"
Click == "click"
LongType == "a-very-long-event-type-label-that-exceeds-fifty-characters"

\* len(s) of the str values that occur
StrLen(s) ==
    CASE s = Resolution -> 9
      [] s = LongResolution -> 21
      [] s = Click -> 5
      [] s = LongType -> 58
      [] s = "unknown" -> 7
      [] OTHER -> 0

\* bool(x) as used by `if v.is_mobile` / `if not v.is_mobile`
Truthy(x) == x = PyTrue

\* ----------------------------------------------------------- JSON values
\* A JSON value is [kind, items]: a scalar holds its literal, an array its
\* element literals, an object its keys and element literals alternating.
Scalar(tok) == [kind |-> "scalar", items |-> <<tok>>]
Array(toks) == [kind |-> "array", items |-> toks]
Object(kvs) == [kind |-> "object", items |-> kvs]
JsonNull == Scalar("null")
NoData == [kind |-> "absent", items |-> <<>>]

JsonValues ==
    { JsonNull, Scalar("\"a\""), Array(<<"1", "\"a\"">>),
      Object(<<"\"x\"", "1">>) }

RECURSIVE Join(_, _)
Join(toks, sep) ==
    IF Len(toks) = 0 THEN <<>>
    ELSE IF Len(toks) = 1 THEN toks
    ELSE <<Head(toks), sep>> \o Join(Tail(toks), sep)

RECURSIVE Pairs(_)
Pairs(kvs) ==
    IF Len(kvs) < 2 THEN <<>>
    ELSE IF Len(kvs) = 2 THEN <<kvs[1], ":", kvs[2]>>
    ELSE <<kvs[1], ":", kvs[2], ",">> \o Pairs(Tail(Tail(kvs)))

\* json.dumps: the token text the JSON column writes
JsonDumps(v) ==
    CASE v.kind = "scalar" -> v.items
      [] v.kind = "array" -> <<"[">> \o Join(v.items, ",") \o <<"]">>
      [] v.kind = "object" -> <<"{">> \o Pairs(v.items) \o <<"}">>

\* the tokens of a bracketed text that are not punctuation
RECURSIVE Elements(_)
Elements(toks) ==
    IF Len(toks) = 0 THEN <<>>
    ELSE IF Head(toks) \in {",", ":", "]", "}"} THEN Elements(Tail(toks))
    ELSE <<Head(toks)>> \o Elements(Tail(toks))

\* a read that returns the first token of the text as it is
JsonLoadsRaw(text) == Scalar(Head(text))

\* json.loads: the value the JSON column reads back
JsonLoads(text) ==
    CASE Head(text) = "[" -> Array(Elements(Tail(text)))
      [] Head(text) = "{" -> Object(Elements(Tail(text)))
      [] OTHER -> Scalar(Head(text))

\* ------------------------------------------------------------ timestamps
\* datetime.utcnow() at clock reading t; the clock counts half days from
\* 2024-12-31 00:00, so that readings cross a month and a year boundary.
utcnow(t) ==
    LET d == t \div 2
    IN  [year |-> IF d = 0 THEN 2024 ELSE 2025,
         month |-> IF d = 0 THEN 12 ELSE 1,
         day |-> IF d = 0 THEN 31 ELSE d,
         hour |-> 12 * (t % 2)]

\* str values of strftime are sequences of character codes
Dash == 45
Digit(n) == 48 + n
Digits2(n) == <<Digit(n \div 10), Digit(n % 10)>>
Digits4(n) ==
    <<Digit(n \div 1000), Digit((n \div 100) % 10)>> \o Digits2(n % 100)

\* day first: '%d-%m-%Y'
strftimeDayFirst(ts) ==
    Digits2(ts.day) \o <<Dash>> \o Digits2(ts.month) \o <<Dash>>
        \o Digits4(ts.year)

\* timestamp.strftime('%Y-%m-%d')
strftime(ts) ==
    Digits4(ts.year) \o <<Dash>> \o Digits2(ts.month) \o <<Dash>>
        \o Digits2(ts.day)

\* a < b on str (lexicographic on character codes)
RECURSIVE StrLess(_, _)
StrLess(a, b) ==
    IF Len(b) = 0 THEN FALSE
    ELSE IF Len(a) = 0 THEN TRUE
    ELSE IF Head(a) # Head(b) THEN Head(a) < Head(b)
    ELSE StrLess(Tail(a), Tail(b))

\* a < b on datetime
TimeLess(a, b) ==
    \/ a.year < b.year
    \/ a.year = b.year /\ a.month < b.month
    \/ a.year = b.year /\ a.month = b.month /\ a.day < b.day
    \/ a.year = b.year /\ a.month = b.month /\ a.day = b.day
         /\ a.hour < b.hour

\* ------------------------------------------------------------ data model
\* class Visit: the NOT NULL columns, and String(20) where the backend
\* enforces the length (PostgreSQL does, SQLite does not)
VisitRowOK(v, be) ==
    /\ v.is_mobile # PyNone
    /\ v.screen_resolution # PyNone
    /\ be = "postgresql" => StrLen(v.screen_resolution) <= 20

\* an Event table whose event_type is nullable
EventRowOKNullable(e, be) ==
    be = "postgresql" => StrLen(e.event_type) <= 50

\* class Event: event_type is NOT NULL String(50), event_data is nullable
EventRowOK(e, be) ==
    /\ e.event_type # PyNone
    /\ be = "postgresql" => StrLen(e.event_type) <= 50

\* an INSERT that skips a row whose values are already stored
InsertRowDedup(table, row, t) ==
    IF \E i \in 1..Len(table) :
          [id |-> table[i].id, timestamp |-> table[i].timestamp] @@ row
            = table[i]
    THEN table
    ELSE Append(table, [id |-> Len(table) + 1, timestamp |-> utcnow(t)] @@ row)

\* an INSERT that keeps only the newest row
InsertRowKeepLast(table, row, t) ==
    <<[id |-> Len(table) + 1, timestamp |-> utcnow(t)] @@ row>>

\* INSERT of a pending row: the storage assigns the next id and the
\* column default fills the timestamp
InsertRow(table, row, t) ==
    Append(table, [id |-> Len(table) + 1, timestamp |-> utcnow(t)] @@ row)

\* a commit that leaves the row behind when the storage rejects it
FlushPartial(table, row, ok, t) == InsertRow(table, row, t)

\* a commit whose write is lost when the table already has rows
FlushLost(table, row, ok, t) ==
    IF ok /\ Len(table) = 0 THEN InsertRow(table, row, t) ELSE table

\* db.session.commit() of one pending row: the row is written when the
\* storage accepts it, and nothing is written otherwise
Flush(table, row, ok, t) == IF ok THEN InsertRow(table, row, t) ELSE table

\* ------------------------------------------------------------- payloads
\* request.json: is_json is FALSE when the body is not a JSON object (the
\* access raises); otherwise a dict whose keys may be absent.
NoJsonBody ==
    [is_json |-> FALSE, isMobile |-> Absent, screenResolution |-> Absent,
     type |-> Absent, data |-> NoData]
EmptyBody == [NoJsonBody EXCEPT !.is_json = TRUE]
VisitBody(m, r) == [EmptyBody EXCEPT !.isMobile = m, !.screenResolution = r]
EventBody(t, d) == [EmptyBody EXCEPT !.type = t, !.data = d]

\* the payloads of the ingestion workloads
VisitBodies ==
    {NoJsonBody, EmptyBody, VisitBody(PyTrue, Absent),
     VisitBody(PyTrue, Resolution), VisitBody(PyFalse, Resolution),
     VisitBody(PyNone, Resolution), VisitBody(PyTrue, PyNone),
     VisitBody(PyFalse, LongResolution)}
EventBodies ==
    {NoJsonBody, EmptyBody, EventBody(LongType, Scalar("1"))}
    \cup { EventBody(Click, d) : d \in {NoData} \cup JsonValues }
\* one payload for each way through an ingestion handler
MixedVisitBodies == {NoJsonBody, EmptyBody, VisitBody(PyNone, Resolution)}
MixedEventBodies ==
    {NoJsonBody, EmptyBody, EventBody(Click, Object(<<"\"x\"", "1">>))}

\* a lookup that ignores the default
GetNoDefault(d, key, default) == IF d[key] = Absent THEN PyNone ELSE d[key]

\* dict.get(key, default) on a scalar key
Get(d, key, default) == IF d[key] = Absent THEN default ELSE d[key]
\* dict.get('data'): None is the JSON null
GetValue(d) == IF d.data.kind = "absent" THEN JsonNull ELSE d.data

\* Visit(is_mobile=..., screen_resolution=...)
NewVisit(data) ==
    [is_mobile |-> Get(data, "isMobile", PyFalse),
     screen_resolution |-> Get(data, "screenResolution", "unknown")]

\* Event(event_type=..., event_data=...): the JSON column holds the text
NewEvent(data) ==
    [event_type |-> Get(data, "type", PyNone),
     event_data |-> JsonDumps(GetValue(data))]

\* ----------------------------------------------------------- aggregation
\* sum(1 for v in visits if v.is_mobile)
RECURSIVE CountMobile(_)
CountMobile(vs) ==
    IF Len(vs) = 0 THEN 0
    ELSE (IF Truthy(Head(vs).is_mobile) THEN 1 ELSE 0) + CountMobile(Tail(vs))

\* sum(1 for v in visits if v.is_mobile is False)
RECURSIVE CountIsFalse(_)
CountIsFalse(vs) ==
    IF Len(vs) = 0 THEN 0
    ELSE (IF Head(vs).is_mobile = PyFalse THEN 1 ELSE 0)
            + CountIsFalse(Tail(vs))

\* sum(1 for v in visits if not v.is_mobile)
RECURSIVE CountNotMobile(_)
CountNotMobile(vs) ==
    IF Len(vs) = 0 THEN 0
    ELSE (IF ~Truthy(Head(vs).is_mobile) THEN 1 ELSE 0)
            + CountNotMobile(Tail(vs))

\* [{'type': e.event_type, 'data': e.event_data} for e in events]
EventList(es) ==
    [i \in 1..Len(es) |->
        [type |-> es[i].event_type, data |-> JsonLoads(es[i].event_data)]]

\* analytics_data of get_analytics
AnalyticsData(vs, es) ==
    [total_visits |-> Len(vs),
     mobile_visits |-> CountMobile(vs),
     desktop_visits |-> CountNotMobile(vs),
     events |-> EventList(es)]

\* Visit.query.order_by(Visit.timestamp): insertion of each row after the
\* rows that are not later than it
RECURSIVE InsertByTime(_, _)
InsertByTime(sorted, v) ==
    IF Len(sorted) = 0 THEN <<v>>
    ELSE IF TimeLess(v.timestamp, Head(sorted).timestamp)
         THEN <<v>> \o sorted
         ELSE <<Head(sorted)>> \o InsertByTime(Tail(sorted), v)

RECURSIVE OrderByTimestamp(_)
OrderByTimestamp(vs) ==
    IF Len(vs) = 0 THEN <<>>
    ELSE InsertByTime(OrderByTimestamp(SubSeq(vs, 1, Len(vs) - 1)),
                      vs[Len(vs)])

\* the defaultdict(int) loop: visit_dates[date_str] += 1
RECURSIVE CountDates(_, _)
CountDates(vs, dict) ==
    IF Len(vs) = 0 THEN dict
    ELSE LET date_str == strftime(Head(vs).timestamp)
         IN  CountDates(Tail(vs),
                IF date_str \in DOMAIN dict
                THEN [dict EXCEPT ![date_str] = @ + 1]
                ELSE dict @@ (date_str :> 1))

\* sorted(keys)
RECURSIVE Sorted(_)
Sorted(keys) ==
    IF keys = {} THEN <<>>
    ELSE LET least == CHOOSE k \in keys :
                        \A other \in keys \ {k} : StrLess(k, other)
         IN  <<least>> \o Sorted(keys \ {least})

\* the template arguments of dashboard
DashboardData(vs) ==
    LET total_visits == Len(vs)
        mobile_visits == CountMobile(vs)
        visit_dates == CountDates(vs, <<>>)
        sorted_dates == Sorted(DOMAIN visit_dates)
    IN  [total_visits |-> total_visits,
         mobile_visits |-> mobile_visits,
         desktop_visits |-> total_visits - mobile_visits,
         visit_dates |-> sorted_dates,
         visit_counts |->
            [i \in 1..Len(sorted_dates) |-> visit_dates[sorted_dates[i]]]]

\* ---------------------------------------------------------------- session
\* db.session of one request: conn is TRUE while a transaction holds a
\* connection of the pool, new are the rows added and not yet flushed.
NoSession == [conn |-> FALSE, newVisits |-> <<>>, newEvents |-> <<>>]
SessionAddVisit(s, v) == [s EXCEPT !.newVisits = Append(@, v)]
SessionAddEvent(s, e) == [s EXCEPT !.newEvents = Append(@, e)]
SessionRollback(s) == NoSession
\* a close that keeps the connection
SessionCloseLeak(s) == s
SessionClose(s) == NoSession

\* --------------------------------------------------------------- responses
NoResp ==
    [code |-> 0, status |-> "", message |-> "",
     total_visits |-> 0, mobile_visits |-> 0, desktop_visits |-> 0,
     events |-> <<>>, visit_dates |-> <<>>, visit_counts |-> <<>>]
\* jsonify({'status': 'success'}), 200
Success == [NoResp EXCEPT !.code = 200, !.status = "success"]
\* jsonify({'status': 'error', 'message': str(e)}), 500
Error(e) == [NoResp EXCEPT !.code = 500, !.status = "error", !.message = e]
\* str(e), 500
TextError(e) == [NoResp EXCEPT !.code = 500, !.message = e]

\* ------------------------------------------------------------------ state
VARIABLES
    backend,    \* the database of SQLALCHEMY_DATABASE_URI
    dbUp,       \* whether the storage answers
    now,        \* the clock
    visits,     \* table Visit, in id order
    events,     \* table Event, in id order
    pc,         \* per worker: where its request stands
    kind,       \* per worker: the route of its request
    body,       \* per worker: request.json
    session,    \* per worker: db.session
    exc,        \* per worker: the exception raised in try
    resp,       \* per worker: the response returned
    qvisits,    \* per worker: the local `visits` of a read handler
    nreq,       \* requests dispatched so far
    served,     \* successful responses returned, per ingestion route
    acked       \* the {type, data} payloads of the acknowledged events

vars ==
    <<backend, dbUp, now, visits, events, pc, kind, body, session, exc,
      resp, qvisits, nreq, served, acked>>

store == <<visits, events>>
history == <<served, acked>>
config == <<backend>>
env == <<dbUp, now>>

Routes == {"home", "track_visit", "track_event", "get_analytics", "dashboard"}

Entry(route) ==
    CASE route \in {"track_visit", "track_event"} -> "add"
      [] route \in {"get_analytics", "dashboard"} -> "query"
      [] OTHER -> "home"

Init ==
    /\ backend \in {"sqlite", "postgresql"}
    /\ dbUp = TRUE
    /\ now = 0
    /\ visits = <<>>
    /\ events = <<>>
    /\ pc = [w \in Workers |-> "idle"]
    /\ kind = [w \in Workers |-> "home"]
    /\ body = [w \in Workers |-> NoJsonBody]
    /\ session = [w \in Workers |-> NoSession]
    /\ exc = [w \in Workers |-> ""]
    /\ resp = [w \in Workers |-> NoResp]
    /\ qvisits = [w \in Workers |-> <<>>]
    /\ nreq = 0
    /\ served = [track_visit |-> 0, track_event |-> 0]
    /\ acked = {}

\* ------------------------------------------------------------ environment
Tick ==
    /\ now < MaxClock
    /\ now' = now + 1
    /\ UNCHANGED <<config, dbUp, store, pc, kind, body, session, exc, resp,
                   qvisits, nreq, history>>

Disconnect ==
    /\ dbUp
    /\ dbUp' = FALSE
    /\ UNCHANGED <<config, now, store, pc, kind, body, session, exc, resp,
                   qvisits, nreq, history>>

Reconnect ==
    /\ ~dbUp
    /\ dbUp' = TRUE
    /\ UNCHANGED <<config, now, store, pc, kind, body, session, exc, resp,
                   qvisits, nreq, history>>

\* a request arrives at a free worker
Dispatch(w, route, b) ==
    /\ pc[w] \in {"idle", "done"}
    /\ nreq < MaxRequests
    /\ nreq' = nreq + 1
    /\ kind' = [kind EXCEPT ![w] = route]
    /\ body' = [body EXCEPT ![w] = b]
    /\ resp' = [resp EXCEPT ![w] = NoResp]
    /\ exc' = [exc EXCEPT ![w] = ""]
    /\ pc' = [pc EXCEPT ![w] = Entry(route)]
    /\ UNCHANGED <<config, env, store, session, qvisits, history>>

\* ------------------------------------------------------------------ home
home(w) ==
    /\ pc[w] = "home"
    /\ resp' = [resp EXCEPT ![w] =
                  [NoResp EXCEPT !.code = 200, !.status = "ok",
                                 !.message = "Analytics API is running"]]
    /\ pc' = [pc EXCEPT ![w] = "done"]
    /\ UNCHANGED <<config, env, store, kind, body, session, exc, qvisits,
                   nreq, history>>

\* ----------------------------------------------------------- track_visit
\* data = request.json; visit = Visit(...); db.session.add(visit)
track_visit_add(w) ==
    /\ pc[w] = "add" /\ kind[w] = "track_visit"
    /\ IF body[w].is_json
       THEN /\ session' = [session EXCEPT ![w] =
                             SessionAddVisit(@, NewVisit(body[w]))]
            /\ pc' = [pc EXCEPT ![w] = "commit"]
            /\ exc' = exc
       ELSE /\ exc' = [exc EXCEPT ![w] = "AttributeError"]
            /\ pc' = [pc EXCEPT ![w] = "except"]
            /\ session' = session
    /\ UNCHANGED <<config, env, store, kind, body, resp, qvisits, nreq,
                   history>>

\* db.session.commit(); return jsonify({'status': 'success'}), 200
track_visit_commit(w) ==
    /\ pc[w] = "commit" /\ kind[w] = "track_visit"
    /\ LET row == session[w].newVisits[1]
           ok == dbUp /\ VisitRowOK(row, backend)
       IN  /\ visits' = Flush(visits, row, ok, now)
           /\ IF ok
              THEN /\ session' = [session EXCEPT ![w] = NoSession]
                   /\ resp' = [resp EXCEPT ![w] = Success]
                   /\ pc' = [pc EXCEPT ![w] = "finally"]
                   /\ exc' = exc
              ELSE /\ exc' = [exc EXCEPT ![w] =
                                IF ~dbUp THEN "OperationalError"
                                ELSE IF PyNone \in {row.is_mobile,
                                                    row.screen_resolution}
                                THEN "IntegrityError" ELSE "DataError"]
                   /\ session' = [session EXCEPT ![w].conn = dbUp]
                   /\ pc' = [pc EXCEPT ![w] = "except"]
                   /\ resp' = resp
    /\ UNCHANGED <<config, env, events, kind, body, qvisits, nreq, history>>

\* db.session.rollback(); return jsonify({'status': 'error', ...}), 500
track_visit_except(w) ==
    /\ pc[w] = "except" /\ kind[w] = "track_visit"
    /\ session' = [session EXCEPT ![w] = SessionRollback(@)]
    /\ resp' = [resp EXCEPT ![w] = Error(exc[w])]
    /\ pc' = [pc EXCEPT ![w] = "finally"]
    /\ UNCHANGED <<config, env, store, kind, body, exc, qvisits, nreq,
                   history>>

\* db.session.close(), and the response leaves the handler
track_visit_finally(w) ==
    /\ pc[w] = "finally" /\ kind[w] = "track_visit"
    /\ session' = [session EXCEPT ![w] = SessionClose(@)]
    /\ served' = [served EXCEPT !.track_visit =
                    IF resp[w].code = 200 THEN @ + 1 ELSE @]
    /\ body' = [body EXCEPT ![w] = NoJsonBody]
    /\ exc' = [exc EXCEPT ![w] = ""]
    /\ pc' = [pc EXCEPT ![w] = "done"]
    /\ UNCHANGED <<config, env, store, kind, resp, qvisits, nreq, acked>>

\* ----------------------------------------------------------- track_event
\* data = request.json; event = Event(...); db.session.add(event)
track_event_add(w) ==
    /\ pc[w] = "add" /\ kind[w] = "track_event"
    /\ IF body[w].is_json
       THEN /\ session' = [session EXCEPT ![w] =
                             SessionAddEvent(@, NewEvent(body[w]))]
            /\ pc' = [pc EXCEPT ![w] = "commit"]
            /\ exc' = exc
       ELSE /\ exc' = [exc EXCEPT ![w] = "AttributeError"]
            /\ pc' = [pc EXCEPT ![w] = "except"]
            /\ session' = session
    /\ UNCHANGED <<config, env, store, kind, body, resp, qvisits, nreq,
                   history>>

\* db.session.commit(); return jsonify({'status': 'success'}), 200
track_event_commit(w) ==
    /\ pc[w] = "commit" /\ kind[w] = "track_event"
    /\ LET row == session[w].newEvents[1]
           ok == dbUp /\ EventRowOK(row, backend)
       IN  /\ events' = Flush(events, row, ok, now)
           /\ IF ok
              THEN /\ session' = [session EXCEPT ![w] = NoSession]
                   /\ resp' = [resp EXCEPT ![w] = Success]
                   /\ pc' = [pc EXCEPT ![w] = "finally"]
                   /\ exc' = exc
              ELSE /\ exc' = [exc EXCEPT ![w] =
                                IF ~dbUp THEN "OperationalError"
                                ELSE IF row.event_type = PyNone
                                THEN "IntegrityError" ELSE "DataError"]
                   /\ session' = [session EXCEPT ![w].conn = dbUp]
                   /\ pc' = [pc EXCEPT ![w] = "except"]
                   /\ resp' = resp
    /\ UNCHANGED <<config, env, visits, kind, body, qvisits, nreq, history>>

\* db.session.rollback(); return jsonify({'status': 'error', ...}), 500
track_event_except(w) ==
    /\ pc[w] = "except" /\ kind[w] = "track_event"
    /\ session' = [session EXCEPT ![w] = SessionRollback(@)]
    /\ resp' = [resp EXCEPT ![w] = Error(exc[w])]
    /\ pc' = [pc EXCEPT ![w] = "finally"]
    /\ UNCHANGED <<config, env, store, kind, body, exc, qvisits, nreq,
                   history>>

\* db.session.close(), and the response leaves the handler
track_event_finally(w) ==
    /\ pc[w] = "finally" /\ kind[w] = "track_event"
    /\ session' = [session EXCEPT ![w] = SessionClose(@)]
    /\ served' = [served EXCEPT !.track_event =
                    IF resp[w].code = 200 THEN @ + 1 ELSE @]
    /\ acked' = IF resp[w].code = 200
                THEN acked \cup {[type |-> body[w].type,
                                  data |-> body[w].data]}
                ELSE acked
    /\ body' = [body EXCEPT ![w] = NoJsonBody]
    /\ exc' = [exc EXCEPT ![w] = ""]
    /\ pc' = [pc EXCEPT ![w] = "done"]
    /\ UNCHANGED <<config, env, store, kind, resp, qvisits, nreq>>

\* --------------------------------------------------------- get_analytics
\* visits = Visit.query.all()
get_analytics_visits(w) ==
    /\ pc[w] = "query" /\ kind[w] = "get_analytics"
    /\ IF dbUp
       THEN /\ qvisits' = [qvisits EXCEPT ![w] = visits]
            /\ session' = [session EXCEPT ![w].conn = TRUE]
            /\ pc' = [pc EXCEPT ![w] = "query2"]
            /\ exc' = exc
       ELSE /\ exc' = [exc EXCEPT ![w] = "OperationalError"]
            /\ pc' = [pc EXCEPT ![w] = "except"]
            /\ UNCHANGED <<qvisits, session>>
    /\ UNCHANGED <<config, env, store, kind, body, resp, nreq, history>>

\* events = Event.query.all(); return jsonify(analytics_data), 200
get_analytics_events(w) ==
    /\ pc[w] = "query2" /\ kind[w] = "get_analytics"
    /\ IF dbUp
       THEN /\ resp' = [resp EXCEPT ![w] =
                          [code |-> 200] @@ AnalyticsData(qvisits[w], events)
                            @@ NoResp]
            /\ pc' = [pc EXCEPT ![w] = "finally"]
            /\ exc' = exc
       ELSE /\ exc' = [exc EXCEPT ![w] = "OperationalError"]
            /\ pc' = [pc EXCEPT ![w] = "except"]
            /\ resp' = resp
    /\ UNCHANGED <<config, env, store, kind, body, session, qvisits, nreq,
                   history>>

\* return jsonify({'status': 'error', 'message': str(e)}), 500
get_analytics_except(w) ==
    /\ pc[w] = "except" /\ kind[w] = "get_analytics"
    /\ resp' = [resp EXCEPT ![w] = Error(exc[w])]
    /\ pc' = [pc EXCEPT ![w] = "finally"]
    /\ UNCHANGED <<config, env, store, kind, body, session, exc, qvisits,
                   nreq, history>>

\* db.session.close(), and the response leaves the handler
get_analytics_finally(w) ==
    /\ pc[w] = "finally" /\ kind[w] = "get_analytics"
    /\ session' = [session EXCEPT ![w] = SessionClose(@)]
    /\ qvisits' = [qvisits EXCEPT ![w] = <<>>]
    /\ exc' = [exc EXCEPT ![w] = ""]
    /\ pc' = [pc EXCEPT ![w] = "done"]
    /\ UNCHANGED <<config, env, store, kind, body, resp, nreq, history>>

\* -------------------------------------------------------------- dashboard
\* visits = Visit.query.order_by(Visit.timestamp).all() and the statistics
\* computed from them; return render_template_string(...)
dashboard_query(w) ==
    /\ pc[w] = "query" /\ kind[w] = "dashboard"
    /\ IF dbUp
       THEN /\ qvisits' = [qvisits EXCEPT ![w] = OrderByTimestamp(visits)]
            /\ session' = [session EXCEPT ![w].conn = TRUE]
            /\ resp' = [resp EXCEPT ![w] =
                          [code |-> 200]
                            @@ DashboardData(OrderByTimestamp(visits))
                            @@ NoResp]
            /\ pc' = [pc EXCEPT ![w] = "finally"]
            /\ exc' = exc
       ELSE /\ exc' = [exc EXCEPT ![w] = "OperationalError"]
            /\ pc' = [pc EXCEPT ![w] = "except"]
            /\ UNCHANGED <<qvisits, session, resp>>
    /\ UNCHANGED <<config, env, store, kind, body, nreq, history>>

\* return str(e), 500
dashboard_except(w) ==
    /\ pc[w] = "except" /\ kind[w] = "dashboard"
    /\ resp' = [resp EXCEPT ![w] = TextError(exc[w])]
    /\ pc' = [pc EXCEPT ![w] = "finally"]
    /\ UNCHANGED <<config, env, store, kind, body, session, exc, qvisits,
                   nreq, history>>

\* db.session.close(), and the response leaves the handler
dashboard_finally(w) ==
    /\ pc[w] = "finally" /\ kind[w] = "dashboard"
    /\ session' = [session EXCEPT ![w] = SessionClose(@)]
    /\ qvisits' = [qvisits EXCEPT ![w] = <<>>]
    /\ exc' = [exc EXCEPT ![w] = ""]
    /\ pc' = [pc EXCEPT ![w] = "done"]
    /\ UNCHANGED <<config, env, store, kind, body, resp, nreq, history>>

\* ---------------------------------------------------------- specification
\* Spec: every route, requests of all kinds interleaving, the storage
\* connection going down and up under them.
DispatchMixed ==
    \E w \in Workers :
        \/ \E b \in MixedVisitBodies : Dispatch(w, "track_visit", b)
        \/ \E b \in MixedEventBodies : Dispatch(w, "track_event", b)
        \/ \E route \in {"home", "get_analytics", "dashboard"} :
              Dispatch(w, route, NoJsonBody)

Next ==
    \/ Disconnect
    \/ Reconnect
    \/ DispatchMixed
    \/ \E w \in Workers : home(w)
    \/ \E w \in Workers : track_visit_add(w)
    \/ \E w \in Workers : track_visit_commit(w)
    \/ \E w \in Workers : track_visit_except(w)
    \/ \E w \in Workers : track_visit_finally(w)
    \/ \E w \in Workers : track_event_add(w)
    \/ \E w \in Workers : track_event_commit(w)
    \/ \E w \in Workers : track_event_except(w)
    \/ \E w \in Workers : track_event_finally(w)
    \/ \E w \in Workers : get_analytics_visits(w)
    \/ \E w \in Workers : get_analytics_events(w)
    \/ \E w \in Workers : get_analytics_except(w)
    \/ \E w \in Workers : get_analytics_finally(w)
    \/ \E w \in Workers : dashboard_query(w)
    \/ \E w \in Workers : dashboard_except(w)
    \/ \E w \in Workers : dashboard_finally(w)

Spec == Init /\ [][Next]_vars

\* SpecVisits: the visit workload, every visit payload, read back through
\* /api/analytics.
DispatchVisits ==
    \E w \in Workers :
        \/ \E b \in VisitBodies : Dispatch(w, "track_visit", b)
        \/ Dispatch(w, "get_analytics", NoJsonBody)

NextVisits ==
    \/ Disconnect
    \/ Reconnect
    \/ DispatchVisits
    \/ \E w \in Workers : track_visit_add(w)
    \/ \E w \in Workers : track_visit_commit(w)
    \/ \E w \in Workers : track_visit_except(w)
    \/ \E w \in Workers : track_visit_finally(w)
    \/ \E w \in Workers : get_analytics_visits(w)
    \/ \E w \in Workers : get_analytics_events(w)
    \/ \E w \in Workers : get_analytics_except(w)
    \/ \E w \in Workers : get_analytics_finally(w)

SpecVisits == Init /\ [][NextVisits]_vars

\* SpecEvents: the event workload, every event payload, read back through
\* /api/analytics.
DispatchEvents ==
    \E w \in Workers :
        \/ \E b \in EventBodies : Dispatch(w, "track_event", b)
        \/ Dispatch(w, "get_analytics", NoJsonBody)

NextEvents ==
    \/ Disconnect
    \/ Reconnect
    \/ DispatchEvents
    \/ \E w \in Workers : track_event_add(w)
    \/ \E w \in Workers : track_event_commit(w)
    \/ \E w \in Workers : track_event_except(w)
    \/ \E w \in Workers : track_event_finally(w)
    \/ \E w \in Workers : get_analytics_visits(w)
    \/ \E w \in Workers : get_analytics_events(w)
    \/ \E w \in Workers : get_analytics_except(w)
    \/ \E w \in Workers : get_analytics_finally(w)

SpecEvents == Init /\ [][NextEvents]_vars

\* SpecDash: visits stored while the clock advances, read back through
\* /dashboard; the storage stays up.
DispatchDash ==
    \E w \in Workers :
        \/ \E b \in {EmptyBody, VisitBody(PyTrue, Resolution)} :
              Dispatch(w, "track_visit", b)
        \/ Dispatch(w, "dashboard", NoJsonBody)

NextDash ==
    \/ Tick
    \/ DispatchDash
    \/ \E w \in Workers : track_visit_add(w)
    \/ \E w \in Workers : track_visit_commit(w)
    \/ \E w \in Workers : track_visit_finally(w)
    \/ \E w \in Workers : dashboard_query(w)
    \/ \E w \in Workers : dashboard_finally(w)

SpecDash == Init /\ [][NextDash]_vars

\* SpecAgg: the two read handlers as functions of the table they scan.  The
\* table is any list of Visit rows, whatever wrote them: is_mobile true,
\* false or null, timestamps in any order.
AnyRows ==
    UNION { [1..n -> [is_mobile : {PyTrue, PyFalse, PyNone},
                      t : 0..MaxClock]] : n \in 0..MaxRows }
AnyTable(rows) ==
    [i \in 1..Len(rows) |->
        [id |-> i, timestamp |-> utcnow(rows[i].t),
         is_mobile |-> rows[i].is_mobile, screen_resolution |-> "unknown"]]

InitAgg ==
    /\ backend = "postgresql"
    /\ dbUp = TRUE
    /\ now = MaxClock
    /\ visits \in { AnyTable(rows) : rows \in AnyRows }
    /\ events = <<>>
    /\ pc = [w \in Workers |-> "idle"]
    /\ kind = [w \in Workers |-> "home"]
    /\ body = [w \in Workers |-> NoJsonBody]
    /\ session = [w \in Workers |-> NoSession]
    /\ exc = [w \in Workers |-> ""]
    /\ resp = [w \in Workers |-> NoResp]
    /\ qvisits = [w \in Workers |-> <<>>]
    /\ nreq = 0
    /\ served = [track_visit |-> 0, track_event |-> 0]
    /\ acked = {}

DispatchAgg ==
    \E w \in Workers, route \in {"get_analytics", "dashboard"} :
        Dispatch(w, route, NoJsonBody)

NextAgg ==
    \/ DispatchAgg
    \/ \E w \in Workers : get_analytics_visits(w)
    \/ \E w \in Workers : get_analytics_events(w)
    \/ \E w \in Workers : get_analytics_finally(w)
    \/ \E w \in Workers : dashboard_query(w)
    \/ \E w \in Workers : dashboard_finally(w)

SpecAgg == InitAgg /\ [][NextAgg]_vars

\* ================================================================ claims
\* worker w takes a step of its handler
Steps(w) == pc[w] \notin {"idle", "done"} /\ pc'[w] # pc[w]
\* worker w's commit succeeds in this step
Commits(w, route) ==
    /\ kind[w] = route /\ pc[w] = "commit"
    /\ pc'[w] = "finally" /\ resp'[w].code = 200

Ids(table) == {table[i].id : i \in 1..Len(table)}
IsPrefix(a, b) == Len(a) <= Len(b) /\ SubSeq(b, 1, Len(a)) = a

\* C1: a track-visit call that returns success adds exactly one Visit
\* record with a new id, whatever is already stored (an identical record
\* included): what /api/analytics computes from the store has total_visits
\* one higher, and mobile_visits one higher with desktop_visits unchanged
\* when isMobile is true, desktop_visits one higher with mobile_visits
\* unchanged when isMobile is false or absent.
C1_SuccessfulVisitCountsOnce ==
    [][\A w \in Workers :
        Commits(w, "track_visit") =>
            LET before == AnalyticsData(visits, events)
                after == AnalyticsData(visits', events')
                m == body[w].isMobile
            IN  /\ Len(visits') = Len(visits) + 1
                /\ IsPrefix(visits, visits')
                /\ visits'[Len(visits')].id \notin Ids(visits)
                /\ after.total_visits = before.total_visits + 1
                /\ m \in {PyTrue, PyFalse, Absent}
                /\ m = PyTrue =>
                     /\ after.mobile_visits = before.mobile_visits + 1
                     /\ after.desktop_visits = before.desktop_visits
                /\ m \in {PyFalse, Absent} =>
                     /\ after.desktop_visits = before.desktop_visits + 1
                     /\ after.mobile_visits = before.mobile_visits
    ]_vars

\* two acknowledged visits with the same field values are two records
C1_Witness ==
    /\ served.track_visit = 2
    /\ Len(visits) = 2
    /\ visits[1].id # visits[2].id
    /\ visits[1].is_mobile = visits[2].is_mobile
    /\ visits[1].screen_resolution = visits[2].screen_resolution
    /\ AnalyticsData(visits, events).total_visits = 2

Added(table) == table[Len(table)]
AddsOne(table1, table2) ==
    Len(table2) = Len(table1) + 1 /\ IsPrefix(table1, table2)

Ingestion == {"track_visit", "track_event"}

\* C3: when a track-visit or track-event call fails at the payload access,
\* the add or the commit, the failing step stores nothing, the handler
\* rolls back and returns HTTP 500 with status "error" and the failure
\* text, and no later step of the call changes the Visit or Event table.
C3_FailureRollsBackAndStoresNothing ==
    [][\A w \in Workers :
        (kind[w] \in Ingestion /\ Steps(w)) =>
            /\ pc'[w] = "except" =>
                 /\ pc[w] \in {"add", "commit"}
                 /\ UNCHANGED store
                 /\ exc'[w] # ""
            /\ pc[w] = "except" =>
                 /\ UNCHANGED store
                 /\ pc'[w] = "finally"
                 /\ resp'[w].code = 500
                 /\ resp'[w].status = "error"
                 /\ resp'[w].message = exc[w]
                 /\ session'[w] = NoSession
            /\ (pc[w] = "finally" /\ resp[w].code = 500) =>
                 /\ UNCHANGED store
                 /\ resp'[w] = resp[w]
                 /\ served' = served
            /\ (pc[w] = "finally" /\ resp[w].code # 500) =>
                 resp[w] = Success
    ]_vars

\* a commit refused by the storage has been answered with 500 while the
\* other worker holds a row that is not yet committed
C3_Witness ==
    \E w, v \in Workers :
        /\ kind[w] \in Ingestion /\ pc[w] = "finally"
        /\ resp[w] = Error("OperationalError")
        /\ session[w] = NoSession
        /\ kind[v] \in Ingestion /\ pc[v] = "commit"
        /\ visits = <<>> /\ events = <<>>

\* C6: no request finishes while its session holds a connection or a
\* pending row: whichever way a handler ends (success, failure followed by
\* rollback, read failure), the session is closed when it is done.
C6_SessionReleasedOnEveryExit ==
    \A w \in Workers : pc[w] \in {"idle", "done"} => session[w] = NoSession

\* a read that held a connection has finished, and so has a failed write
C6_Witness ==
    \E w, v \in Workers :
        /\ pc[w] = "done" /\ kind[w] \in {"get_analytics", "dashboard"}
        /\ resp[w].code = 200 /\ session[w] = NoSession
        /\ pc[v] = "done" /\ kind[v] \in Ingestion
        /\ resp[v].code = 500 /\ session[v] = NoSession

RowsComplete ==
    /\ \A i \in 1..Len(visits) :
          /\ visits[i].id = i
          /\ visits[i].is_mobile \in {PyTrue, PyFalse}
          /\ visits[i].screen_resolution # PyNone
    /\ \A i \in 1..Len(events) :
          /\ events[i].id = i
          /\ events[i].event_type # PyNone

\* C7: once every dispatched request has completed, however the requests
\* interleaved, the Visit table has as many records as track-visit
\* requests returned success, the Event table as many as track-event
\* requests returned success, and every stored record is complete.
C7_StoredEqualsAcknowledged ==
    (\A w \in Workers : pc[w] \in {"idle", "done"}) =>
        /\ Len(visits) = served.track_visit
        /\ Len(events) = served.track_event
        /\ RowsComplete

\* two requests have completed, one acknowledged and one refused
C7_Witness ==
    /\ \A w \in Workers : pc[w] = "done" /\ kind[w] \in Ingestion
    /\ \E w, v \in Workers : resp[w] = Success /\ resp[v].code = 500
    /\ Len(visits) + Len(events) = 1

\* C8: the tables only grow at the end: every step keeps the stored
\* records with their ids and values; a track-visit step leaves the Event
\* table alone, a track-event step the Visit table, a step of /, of
\* /api/analytics or of /dashboard both; the total_visits computed from
\* the store never decreases.
C8_AppendOnlyIndependentLogs ==
    [][/\ IsPrefix(visits, visits')
       /\ IsPrefix(events, events')
       /\ AnalyticsData(visits', events').total_visits
            >= AnalyticsData(visits, events).total_visits
       /\ \A w \in Workers :
            Steps(w) =>
                /\ kind[w] = "track_visit" => events' = events
                /\ kind[w] = "track_event" => visits' = visits
                /\ kind[w] \notin Ingestion => UNCHANGED store
    ]_vars

\* a read has completed and the write of the other worker, committed after
\* the read's scan, has added its record
C8_Witness ==
    \E w, v \in Workers :
        /\ pc[w] = "done" /\ kind[w] \in {"get_analytics", "dashboard"}
        /\ resp[w].code = 200 /\ resp[w].total_visits = 0
        /\ Len(visits) = 1
        /\ pc[v] = "finally" /\ kind[v] = "track_visit"

\* C5: once a track-event call with {type: t, data: d} has returned
\* success, every /api/analytics response whose events are read afterwards
\* has an entry with type t and data equal to d.
C5_EventDataRoundTrip ==
    [][\A r \in Workers :
        (/\ kind[r] = "get_analytics" /\ pc[r] = "query2"
         /\ pc'[r] = "finally") =>
            /\ resp'[r].code = 200
            /\ \A a \in acked :
                 a.data # NoData =>
                    \E i \in 1..Len(resp'[r].events) :
                        resp'[r].events[i] = [type |-> a.type,
                                              data |-> a.data]
    ]_vars

\* a response lists an acknowledged event whose data is an object
C5_Witness ==
    \E r \in Workers :
        /\ kind[r] = "get_analytics" /\ pc[r] = "finally"
        /\ resp[r].code = 200
        /\ [type |-> Click, data |-> Object(<<"\"x\"", "1">>)] \in acked
        /\ Len(resp[r].events) = 1
        /\ resp[r].events[1].data = Object(<<"\"x\"", "1">>)

\* the calendar date of a timestamp, and the date a 'YYYY-MM-DD' text names
DateOf(ts) == <<ts.year, ts.month, ts.day>>
Num2(a, b) == 10 * (a - 48) + (b - 48)
ParseDate(str) ==
    <<100 * Num2(str[1], str[2]) + Num2(str[3], str[4]),
      Num2(str[6], str[7]), Num2(str[9], str[10])>>
DateLess(a, b) ==
    \/ a[1] < b[1]
    \/ a[1] = b[1] /\ a[2] < b[2]
    \/ a[1] = b[1] /\ a[2] = b[2] /\ a[3] < b[3]

RECURSIVE SumSeq(_)
SumSeq(ns) == IF Len(ns) = 0 THEN 0 ELSE Head(ns) + SumSeq(Tail(ns))

DashboardOf(w) ==
    kind[w] = "dashboard" /\ pc[w] = "finally" /\ resp[w].code = 200

\* C9: what /dashboard computes over the stored visits: visit_dates are
\* the distinct calendar dates of the Visit timestamps as 'YYYY-MM-DD', in
\* strictly ascending order; visit_counts has the same length, and
\* visit_counts[i] is the number of visits dated visit_dates[i], at least
\* 1; the counts add up to total_visits; with no visit stored total_visits
\* is 0 and both lists are empty.
C9_DashboardDateSeries ==
    \A w \in Workers :
        DashboardOf(w) =>
            LET dates == resp[w].visit_dates
                counts == resp[w].visit_counts
            IN  /\ Len(counts) = Len(dates)
                /\ \A i \in 1..Len(dates) :
                     /\ Len(dates[i]) = 10
                     /\ dates[i][5] = Dash /\ dates[i][8] = Dash
                /\ \A i, j \in 1..Len(dates) :
                     i < j =>
                        /\ StrLess(dates[i], dates[j])
                        /\ DateLess(ParseDate(dates[i]), ParseDate(dates[j]))
                /\ {ParseDate(dates[i]) : i \in 1..Len(dates)}
                     = {DateOf(visits[k].timestamp) : k \in 1..Len(visits)}
                /\ \A i \in 1..Len(dates) :
                     /\ counts[i] >= 1
                     /\ counts[i] =
                          Cardinality({k \in 1..Len(visits) :
                             DateOf(visits[k].timestamp)
                               = ParseDate(dates[i])})
                /\ SumSeq(counts) = resp[w].total_visits
                /\ resp[w].total_visits = Len(visits)
                /\ Len(visits) = 0 =>
                     /\ resp[w].total_visits = 0
                     /\ dates = <<>>
                     /\ counts = <<>>

\* the table holds a visit of 2025 before a visit of 2024, and the series
\* has the two dates
C9_Witness ==
    \E w \in Workers :
        /\ DashboardOf(w)
        /\ Len(visits) = 2
        /\ visits[1].timestamp.year = 2025
        /\ visits[2].timestamp.year = 2024
        /\ Len(resp[w].visit_dates) = 2
        /\ resp[w].visit_counts = <<1, 1>>

ReadOf(w) ==
    /\ kind[w] \in {"get_analytics", "dashboard"}
    /\ pc[w] = "finally" /\ resp[w].code = 200

\* C10: in every successful /api/analytics response and /dashboard
\* computation total_visits = mobile_visits + desktop_visits, whatever
\* is_mobile values the rows hold (null included), and over the same table
\* the two handlers report the same three numbers.
C10_TotalIsMobilePlusDesktop ==
    \A w \in Workers :
        ReadOf(w) =>
            /\ resp[w].total_visits = Len(visits)
            /\ resp[w].total_visits
                 = resp[w].mobile_visits + resp[w].desktop_visits
            /\ \A v \in Workers :
                 ReadOf(v) =>
                    /\ resp[v].total_visits = resp[w].total_visits
                    /\ resp[v].mobile_visits = resp[w].mobile_visits
                    /\ resp[v].desktop_visits = resp[w].desktop_visits

\* both handlers have answered over a table with a null is_mobile
C10_Witness ==
    \E w, v \in Workers :
        /\ ReadOf(w) /\ kind[w] = "get_analytics"
        /\ ReadOf(v) /\ kind[v] = "dashboard"
        /\ Len(visits) = 2
        /\ visits[1].is_mobile = PyNone
        /\ visits[2].is_mobile = PyTrue
        /\ resp[w].desktop_visits = 1

====
